---- MODULE Spec2Model ----
(***************************************************************************)
(* CUDA primitives of CTranslate2 (src/primitives/gpu_cuda.cu).            *)
(*                                                                         *)
(* Three specifications share this module:                                 *)
(*   SpecTranspose  the permutation functors perm_indices_3d and           *)
(*                  perm_indices_4d applied by permute                     *)
(*   SpecGemm       the row-major gemm bridge onto column-major cublasSgemm*)
(*   Spec           the host thread running topk and gemm_batch against    *)
(*                  the device allocator and the CUDA stream               *)
(* Arrays are sequences; a C index i is the sequence index i + 1.          *)
(***************************************************************************)
EXTENDS Integers, Sequences, FiniteSets, TLC

VARIABLES
  \* transpose_3d / transpose_4d: one call and its round trip
  t_pc, t_dims, t_perm, t_a, t_b, t_back,
  \* gemm: one call
  g_pc, g_args, g_c,
  \* the host thread: its position and the call it is in (or finished last)
  pc, call,
  \* topk's thread_local statics
  keys, values, alloc_size,
  \* gemm_batch's thread_local statics
  a_array_device, b_array_device, c_array_device, gb_alloc_size,
  \* gemm_batch's host pointer tables (new[] ... delete[])
  host_arrays,
  \* device allocations, the CUDA stream, and the caller's output buffers
  dev, stream, val, ind, gb_seen,
  \* history: a call has thrown; the largest scratch size each primitive
  \* has asked for
  failed, reqMax

tvars == <<t_pc, t_dims, t_perm, t_a, t_b, t_back>>
gvars == <<g_pc, g_args, g_c>>
topk_statics == <<keys, values, alloc_size>>
gb_statics == <<a_array_device, b_array_device, c_array_device, gb_alloc_size>>
rvars == <<pc, call, topk_statics, gb_statics, host_arrays, dev, stream, val, ind,
           gb_seen, failed, reqMax>>
vars == <<tvars, gvars, rvars>>

\* ------------------------------------------------------------------ bounds
\* Largest extent of one tensor axis in SpecTranspose.
MaxDim == 2
\* Largest m, n, k in SpecGemm.
MaxMNK == 2

\* What a read outside an array yields (undefined behaviour in the code).
Garbage == 0 - 1

Read(x, i) == IF i + 1 \in DOMAIN x THEN x[i + 1] ELSE Garbage

\* ------------------------------------------------------- transpose engine
\* The functor's members, set by its constructor.
perm_indices_3d(dims, perm) ==
  LET a_stride == <<dims[2] * dims[3], dims[3], 1>>
      b_d0 == dims[perm[1] + 1]
      b_d1 == dims[perm[2] + 1]
      b_d2 == dims[perm[3] + 1]
  IN [a_ps0 |-> a_stride[perm[1] + 1],
      a_ps1 |-> a_stride[perm[2] + 1],
      a_ps2 |-> a_stride[perm[3] + 1],
      b_d0 |-> b_d0, b_d1 |-> b_d1, b_d2 |-> b_d2,
      b_s0 |-> b_d1 * b_d2, b_s1 |-> b_d2, b_s2 |-> 1]

\* A slip in operator(): the middle coordinate loses its modulo.
perm_index_3d_nomod(f, i) ==
  LET i0 == i \div f.b_s0
      i1 == i \div f.b_s1
      i2 == i % f.b_d2
  IN i0 * f.a_ps0 + i1 * f.a_ps1 + i2 * f.a_ps2

\* operator()(i): index in the original array of permuted element i.
perm_index_3d(f, i) ==
  LET i0 == i \div f.b_s0
      i1 == (i \div f.b_s1) % f.b_d1
      i2 == i % f.b_d2
  IN i0 * f.a_ps0 + i1 * f.a_ps1 + i2 * f.a_ps2

perm_indices_4d(dims, perm) ==
  LET a_stride == <<dims[2] * dims[3] * dims[4], dims[3] * dims[4], dims[4], 1>>
      b_d0 == dims[perm[1] + 1]
      b_d1 == dims[perm[2] + 1]
      b_d2 == dims[perm[3] + 1]
      b_d3 == dims[perm[4] + 1]
  IN [a_ps0 |-> a_stride[perm[1] + 1],
      a_ps1 |-> a_stride[perm[2] + 1],
      a_ps2 |-> a_stride[perm[3] + 1],
      a_ps3 |-> a_stride[perm[4] + 1],
      b_d0 |-> b_d0, b_d1 |-> b_d1, b_d2 |-> b_d2, b_d3 |-> b_d3,
      b_s0 |-> b_d1 * b_d2 * b_d3, b_s1 |-> b_d2 * b_d3, b_s2 |-> b_d3,
      b_s3 |-> 1]

perm_index_4d(f, i) ==
  LET i0 == i \div f.b_s0
      i1 == (i \div f.b_s1) % f.b_d1
      i2 == (i \div f.b_s2) % f.b_d2
      i3 == i % f.b_d3
  IN i0 * f.a_ps0 + i1 * f.a_ps1 + i2 * f.a_ps2 * i3 * f.a_ps3

\* y[i] = x[perm_fun(i)] for i in 0 .. size-1.
permute(x, size, perm_fun(_)) == [j \in 1..size |-> Read(x, perm_fun(j - 1))]

transpose_3d(a, dims, perm) ==
  LET f == perm_indices_3d(dims, perm)
      index(i) == perm_index_3d(f, i)
  IN permute(a, dims[1] * dims[2] * dims[3], index)

transpose_4d(a, dims, perm) ==
  LET f == perm_indices_4d(dims, perm)
      index(i) == perm_index_4d(f, i)
  IN permute(a, dims[1] * dims[2] * dims[3] * dims[4], index)

\* Inputs of the transpose specification.
Perms(n) == {p \in [1..n -> 0..(n - 1)] : \A i, j \in 1..n : i # j => p[i] # p[j]}
InversePerm(perm) ==
  [j \in DOMAIN perm |-> (CHOOSE i \in DOMAIN perm : perm[i] = j - 1) - 1]
PermutedDims(dims, perm) == [j \in DOMAIN perm |-> dims[perm[j] + 1]]
RECURSIVE Product(_)
Product(s) == IF s = <<>> THEN 1 ELSE Head(s) * Product(Tail(s))
\* A tensor whose elements are pairwise distinct: element i holds base + i.
Labelled(n, base) == [j \in 1..n |-> base + j - 1]

TInit ==
  /\ t_pc = "ready"
  /\ \E n \in {3, 4} :
       /\ t_dims \in [1..n -> 1..MaxDim]
       /\ t_perm \in Perms(n)
  /\ \E base \in {0, 100} : t_a = Labelled(Product(t_dims), base)
  /\ t_b = <<>>
  /\ t_back = <<>>

TIdle ==
  /\ t_pc = "off" /\ t_dims = <<>> /\ t_perm = <<>>
  /\ t_a = <<>> /\ t_b = <<>> /\ t_back = <<>>

Transpose3d ==
  /\ t_pc = "ready"
  /\ Len(t_dims) = 3
  /\ t_b' = transpose_3d(t_a, t_dims, t_perm)
  /\ t_pc' = "done3"
  /\ UNCHANGED <<t_dims, t_perm, t_a, t_back, gvars, rvars>>

\* The caller transposes the result again with the inverse permutation.
Transpose3dBack ==
  /\ t_pc = "done3"
  /\ t_back' = transpose_3d(t_b, PermutedDims(t_dims, t_perm), InversePerm(t_perm))
  /\ t_pc' = "back3"
  /\ UNCHANGED <<t_dims, t_perm, t_a, t_b, gvars, rvars>>

Transpose4d ==
  /\ t_pc = "ready"
  /\ Len(t_dims) = 4
  /\ t_b' = transpose_4d(t_a, t_dims, t_perm)
  /\ t_pc' = "done4"
  /\ UNCHANGED <<t_dims, t_perm, t_a, t_back, gvars, rvars>>

\* ------------------------------------------------------------ gemm bridge
RECURSIVE DotSum(_, _, _)
DotSum(term(_), l, K) == IF l >= K THEN 0 ELSE term(l) + DotSum(term, l + 1, K)

\* Element (r, c) of op(A) for a column-major A with leading dimension ld.
ColMajorOp(A, ld, trans, r, c) ==
  IF trans = "N" THEN Read(A, r + c * ld) ELSE Read(A, c + r * ld)

\* cublasSgemm: C = alpha * op(A) * op(B) + beta * C, all column-major,
\* op(A) M x K, op(B) K x N, C M x N with leading dimension ldc.
cublasSgemm(transa, transb, M, N, K, alpha, A, lda, B, ldb, beta, C, ldc) ==
  [p \in DOMAIN C |->
     LET i == (p - 1) % ldc
         j == (p - 1) \div ldc
         term(l) == ColMajorOp(A, lda, transa, i, l) * ColMajorOp(B, ldb, transb, l, j)
     IN IF i < M /\ j < N
          THEN alpha * DotSum(term, 0, K) + beta * C[p]
          ELSE C[p]]

\* A slip in ldb: the leading dimension of b ignores transpose_b.
gemm_ldb_fixed(transpose_b, n, k) == n

gemm_lda(transpose_a, m, k) == IF transpose_a THEN m ELSE k
gemm_ldb(transpose_b, n, k) == IF transpose_b THEN k ELSE n
cublas_op(transpose) == IF transpose THEN "T" ELSE "N"

gemm(a, b, transpose_a, transpose_b, m, n, k, alpha, beta, c) ==
  LET lda == gemm_lda(transpose_a, m, k)
      ldb == gemm_ldb(transpose_b, n, k)
      ldc == n
      transa == cublas_op(transpose_a)
      transb == cublas_op(transpose_b)
  IN cublasSgemm(transb, transa, n, m, k, alpha, b, ldb, a, lda, beta, c, ldc)

\* Arrays of length n: all zero but one position holding v.
OneHot(n, v) == {[j \in 1..n |-> IF j = p THEN v ELSE 0] : p \in 1..n}

GInit ==
  /\ g_pc = "ready"
  /\ \E m, n, k \in 1..MaxMNK, ta, tb \in BOOLEAN, alpha, beta \in {0, 1, 2} :
       \E a \in OneHot(m * k, 1), b \in OneHot(k * n, 3), c \in {Labelled(m * n, 5)} :
         g_args = [a |-> a, b |-> b, c |-> c, transpose_a |-> ta, transpose_b |-> tb,
                   m |-> m, n |-> n, k |-> k, alpha |-> alpha, beta |-> beta]
  /\ g_c = <<>>

GIdle == g_pc = "off" /\ g_args = <<>> /\ g_c = <<>>

Gemm ==
  /\ g_pc = "ready"
  /\ g_c' = gemm(g_args.a, g_args.b, g_args.transpose_a, g_args.transpose_b,
                 g_args.m, g_args.n, g_args.k, g_args.alpha, g_args.beta, g_args.c)
  /\ g_pc' = "done"
  /\ UNCHANGED <<g_args, tvars, rvars>>

\* ------------------------------------------------- device, stream, scratch
\* Largest `size` of a topk call.
MaxSize == 2
\* Largest batch_size of a gemm_batch call.
MaxBatch == 1
\* Operations the stream holds before the host has to wait.
MaxStream == 1

\* sizeof (float*)
PtrSize == 8

NULL == 0
\* Device addresses: one per thread_local scratch pointer.
Ptrs == {1, 2, 3, 4, 5}
\* Element values of x.
Vals == {1, 2}
\* An element of val or ind that no copy has written.
Unwritten == 0 - 2
OutLen == MaxSize + 1
Fresh == [j \in 1..OutLen |-> Unwritten]
NoArrays == [live |-> FALSE, a_array |-> <<>>, b_array |-> <<>>, c_array |-> <<>>]
\* The pointer tables cublasSgemmBatched has read on the device: none yet.
NotRun == [a |-> <<>>, b |-> <<>>, c |-> <<>>]
Freed == [live |-> FALSE, cap |-> 0, data |-> <<>>]
NoCall == [op |-> "none", x |-> <<>>, k |-> 0, size |-> 0, batch_size |-> 0,
           m |-> 0, n |-> 0, kk |-> 0, status |-> "ok", cap0 |-> 0,
           frees |-> 0, mallocs |-> 0, enq |-> 0]
Max(a, b) == IF a >= b THEN a ELSE b

\* The pointer addresses a live allocation of at least n units.
Valid(p, n) == p # NULL /\ dev[p].live /\ dev[p].cap >= n
\* An operation on n units at p touches only memory it may touch.
InBounds(p, n) == n = 0 \/ Valid(p, n)

\* A slip in the growth test: the scratch is reallocated on any size change.
NeedsGrowthOnChange(size, capacity) == size # capacity

\* if (size > alloc_size) / if (array_size > alloc_size)
NeedsGrowth(size, capacity) == size > capacity

\* ---- the host's steps
\* A CUDA_CHECK / CUBLAS_CHECK that throws: the call is abandoned where it is.
Throw ==
  /\ pc' = "idle"
  /\ call' = [call EXCEPT !.status = "error"]
  /\ failed' = TRUE

\* The step succeeded; the call returns when next is "idle".
Advance(next, counter) ==
  /\ pc' = next
  /\ call' = [call EXCEPT
                !.status = IF next = "idle" THEN "ok" ELSE @,
                !.frees = IF counter = "frees" THEN @ + 1 ELSE @,
                !.mallocs = IF counter = "mallocs" THEN @ + 1 ELSE @,
                !.enq = IF counter = "enq" THEN @ + 1 ELSE @]
  /\ UNCHANGED failed

\* CUDA_CHECK(cudaFree(p)). cudaFree waits for the device to be idle. Freeing
\* NULL succeeds and does nothing; freeing a pointer that is not a live
\* allocation is reported as an error.
CudaFree(at, p, next) ==
  /\ pc = at
  /\ p = NULL \/ stream = <<>>
  /\ \E ok \in BOOLEAN :
       LET known == p = NULL \/ dev[p].live
       IN IF ok /\ known
            THEN /\ dev' = IF p = NULL THEN dev ELSE [dev EXCEPT ![p] = Freed]
                 /\ Advance(next, "frees")
            ELSE /\ dev' = dev
                 /\ Throw

\* CUDA_CHECK(cudaMalloc(&p, n)) for elems elements: r is what p holds
\* afterwards, fresh memory holds indeterminate values. A failed
\* cudaMalloc leaves p as it was or nulls it. `others` are the addresses the
\* other scratch pointers hold, which a new allocation cannot coincide with
\* while they are live, and is kept apart from when they dangle.
CudaMalloc(at, p, n, elems, next, others, r) ==
  /\ pc = at
  /\ \/ /\ r = CHOOSE q \in Ptrs : q \notin others /\ ~dev[q].live
                  /\ \A q2 \in Ptrs : (q2 \notin others /\ ~dev[q2].live) => q <= q2
        /\ dev' = [dev EXCEPT ![r] = [live |-> TRUE, cap |-> n,
                                      data |-> [j \in 1..elems |-> Garbage]]]
        /\ Advance(next, "mallocs")
     \/ /\ r \in {p, NULL}
        /\ dev' = dev
        /\ Throw

\* An operation is put on the stream; a checked call may fail instead.
Enqueue(at, op, next, checked) ==
  /\ pc = at
  /\ Len(stream) < MaxStream
  /\ \/ /\ stream' = Append(stream, op)
        /\ Advance(next, "enq")
     \/ /\ checked
        /\ stream' = stream
        /\ Throw

Op(kind, p, q, n, data) ==
  [kind |-> kind, p |-> p, q |-> q, n |-> n, data |-> data, cur |-> TRUE, freed |-> FALSE]

\* Operations of earlier calls write to those calls' output buffers.
Earlier(s) == [j \in DOMAIN s |-> [s[j] EXCEPT !.cur = FALSE]]

\* ---- topk
\* Entry of topk(x, val, ind, k, size), up to the growth test.
TopkCall(x, k, size) ==
  /\ pc = "idle"
  /\ call' = [NoCall EXCEPT !.op = "topk", !.x = x, !.k = k, !.size = size,
                            !.status = "running", !.cap0 = alloc_size]
  /\ pc' = IF NeedsGrowth(size, alloc_size) THEN "topk_free_keys" ELSE "topk_copy_in"
  /\ reqMax' = [reqMax EXCEPT !.topk = Max(@, size)]
  /\ val' = Fresh
  /\ ind' = Fresh
  /\ stream' = Earlier(stream)
  /\ UNCHANGED <<topk_statics, gb_statics, host_arrays, dev, gb_seen, failed, tvars, gvars>>

\* Any x over Vals, any k up to size + 1 (one past the precondition k <= size).
TopkBegin ==
  /\ call.op # "gemm_batch"
  /\ \E size \in 0..MaxSize :
       \E x \in [1..size -> Vals], k \in 0..(size + 1) : TopkCall(x, k, size)

TopkFreeKeys ==
  /\ CudaFree("topk_free_keys", keys, "topk_malloc_keys")
  /\ UNCHANGED <<topk_statics, gb_statics, host_arrays, stream, val, ind, gb_seen, reqMax,
                 tvars, gvars>>

TopkMallocKeys ==
  /\ \E r \in Ptrs \cup {NULL} :
       /\ CudaMalloc("topk_malloc_keys", keys, call.size, call.size, "topk_free_values",
                     {values, a_array_device, b_array_device, c_array_device}, r)
       /\ keys' = r
  /\ UNCHANGED <<values, alloc_size, gb_statics, host_arrays, stream, val, ind, gb_seen,
                 reqMax, tvars, gvars>>

TopkFreeValues ==
  /\ CudaFree("topk_free_values", values, "topk_malloc_values")
  /\ UNCHANGED <<topk_statics, gb_statics, host_arrays, stream, val, ind, gb_seen, reqMax,
                 tvars, gvars>>

TopkMallocValues ==
  /\ \E r \in Ptrs \cup {NULL} :
       /\ CudaMalloc("topk_malloc_values", values, call.size, call.size, "topk_copy_in",
                     {keys, a_array_device, b_array_device, c_array_device}, r)
       /\ values' = r
  /\ alloc_size' = IF pc' = "topk_copy_in" THEN call.size ELSE alloc_size
  /\ UNCHANGED <<keys, gb_statics, host_arrays, stream, val, ind, gb_seen, reqMax, tvars,
                 gvars>>

\* A slip in the copy-out: size elements are copied where k are asked for.
TopkCopyValOpSize == Op("copy_val", keys, NULL, call.size, <<>>)

TopkCopyInOp == Op("copy_in", keys, NULL, call.size, call.x)
TopkSequenceOp == Op("sequence", values, NULL, call.size, <<>>)
TopkSortOp == Op("sort", keys, values, call.size, <<>>)
TopkCopyValOp == Op("copy_val", keys, NULL, call.k, <<>>)
TopkCopyIndOp == Op("copy_ind", values, NULL, call.k, <<>>)

TopkUnchanged ==
  UNCHANGED <<topk_statics, gb_statics, host_arrays, dev, val, ind, gb_seen, reqMax, tvars,
              gvars>>

TopkCopyIn == Enqueue("topk_copy_in", TopkCopyInOp, "topk_sequence", TRUE) /\ TopkUnchanged
TopkSequence == Enqueue("topk_sequence", TopkSequenceOp, "topk_sort", FALSE) /\ TopkUnchanged
TopkSort == Enqueue("topk_sort", TopkSortOp, "topk_copy_val", FALSE) /\ TopkUnchanged
TopkCopyVal == Enqueue("topk_copy_val", TopkCopyValOp, "topk_copy_ind", TRUE) /\ TopkUnchanged
TopkCopyInd == Enqueue("topk_copy_ind", TopkCopyIndOp, "idle", TRUE) /\ TopkUnchanged

\* ---- gemm_batch
\* a_array[i] = a + i * m * k, as an offset in elements from a.
PointerTable(batch_size, stride) == [j \in 1..batch_size |-> (j - 1) * stride]

\* Entry of gemm_batch, up to the growth test: lines 275 to 299.
GemmBatchCall(batch_size, m, n, k) ==
  LET array_size == batch_size * PtrSize
  IN /\ pc = "idle"
     /\ call' = [NoCall EXCEPT !.op = "gemm_batch", !.batch_size = batch_size,
                               !.m = m, !.n = n, !.kk = k, !.size = array_size,
                               !.status = "running", !.cap0 = gb_alloc_size]
     /\ host_arrays' = [live |-> TRUE,
                        a_array |-> PointerTable(batch_size, m * k),
                        b_array |-> PointerTable(batch_size, k * n),
                        c_array |-> PointerTable(batch_size, m * n)]
     /\ pc' = IF NeedsGrowth(array_size, gb_alloc_size) THEN "gb_free_a" ELSE "gb_copy_a"
     /\ reqMax' = [reqMax EXCEPT !.gemm_batch = Max(@, array_size)]
     /\ stream' = Earlier(stream)
     /\ gb_seen' = NotRun
     /\ UNCHANGED <<topk_statics, gb_statics, dev, val, ind, failed, tvars, gvars>>

\* (m, n, k) of the batched product: a square and a non-square shape.
Shapes == {<<1, 1, 1>>, <<2, 3, 1>>}

GemmBatchBegin ==
  /\ call.op # "topk"
  /\ \E batch_size \in 0..MaxBatch, s \in Shapes :
       GemmBatchCall(batch_size, s[1], s[2], s[3])

GbFreeUnchanged ==
  UNCHANGED <<topk_statics, gb_statics, host_arrays, stream, val, ind, gb_seen, reqMax,
              tvars, gvars>>

GemmBatchFreeA == CudaFree("gb_free_a", a_array_device, "gb_free_b") /\ GbFreeUnchanged
GemmBatchFreeB == CudaFree("gb_free_b", b_array_device, "gb_free_c") /\ GbFreeUnchanged
GemmBatchFreeC == CudaFree("gb_free_c", c_array_device, "gb_malloc_a") /\ GbFreeUnchanged

GemmBatchMallocA ==
  /\ \E r \in Ptrs \cup {NULL} :
       /\ CudaMalloc("gb_malloc_a", a_array_device, call.size, call.batch_size, "gb_malloc_b",
                     {keys, values, b_array_device, c_array_device}, r)
       /\ a_array_device' = r
  /\ UNCHANGED <<topk_statics, b_array_device, c_array_device, gb_alloc_size, host_arrays,
                 stream, val, ind, gb_seen, reqMax, tvars, gvars>>

GemmBatchMallocB ==
  /\ \E r \in Ptrs \cup {NULL} :
       /\ CudaMalloc("gb_malloc_b", b_array_device, call.size, call.batch_size, "gb_malloc_c",
                     {keys, values, a_array_device, c_array_device}, r)
       /\ b_array_device' = r
  /\ UNCHANGED <<topk_statics, a_array_device, c_array_device, gb_alloc_size, host_arrays,
                 stream, val, ind, gb_seen, reqMax, tvars, gvars>>

GemmBatchMallocC ==
  /\ \E r \in Ptrs \cup {NULL} :
       /\ CudaMalloc("gb_malloc_c", c_array_device, call.size, call.batch_size, "gb_copy_a",
                     {keys, values, a_array_device, b_array_device}, r)
       /\ c_array_device' = r
  /\ gb_alloc_size' = IF pc' = "gb_copy_a" THEN call.size ELSE gb_alloc_size
  /\ UNCHANGED <<topk_statics, a_array_device, b_array_device, host_arrays,
                 stream, val, ind, gb_seen, reqMax, tvars, gvars>>

GbUnchanged ==
  UNCHANGED <<topk_statics, gb_statics, host_arrays, dev, val, ind, gb_seen, reqMax, tvars,
              gvars>>

\* cross_device_primitives<CPU, CUDA>::copy: cudaMemcpyAsync, host to device.
HostToDeviceOp(x, y, size) == Op("h2d", y, NULL, size, x)

GemmBatchCopyA ==
  /\ Enqueue("gb_copy_a", HostToDeviceOp(host_arrays.a_array, a_array_device, call.batch_size),
             "gb_copy_b", TRUE)
  /\ GbUnchanged
GemmBatchCopyB ==
  /\ Enqueue("gb_copy_b", HostToDeviceOp(host_arrays.b_array, b_array_device, call.batch_size),
             "gb_copy_c", TRUE)
  /\ GbUnchanged
GemmBatchCopyC ==
  /\ Enqueue("gb_copy_c", HostToDeviceOp(host_arrays.c_array, c_array_device, call.batch_size),
             "gb_delete", TRUE)
  /\ GbUnchanged

\* delete [] a_array; delete [] b_array; delete [] c_array;
GemmBatchDelete ==
  /\ pc = "gb_delete"
  /\ host_arrays' = NoArrays
  /\ stream' = [j \in DOMAIN stream |->
                  IF stream[j].kind = "h2d" /\ stream[j].cur
                    THEN [stream[j] EXCEPT !.freed = TRUE] ELSE stream[j]]
  /\ pc' = "gb_gemm"
  /\ UNCHANGED <<call, topk_statics, gb_statics, dev, val, ind, gb_seen, failed, reqMax,
                 tvars, gvars>>

GemmBatchedOp ==
  Op("gemm_batched", a_array_device, b_array_device, call.batch_size, <<c_array_device>>)

GemmBatchSgemm ==
  /\ Enqueue("gb_gemm", GemmBatchedOp, "idle", TRUE)
  /\ GbUnchanged

\* ---- the stream executes its oldest operation
WriteFirst(buf, n, elem(_)) == [j \in DOMAIN buf |-> IF j <= n THEN elem(j) ELSE buf[j]]

\* Orders of 1..n that leave the keys in descending order (sort_by_key is
\* not a stable sort: equal keys may come out in any order).
SortOrders(k, n) ==
  {o \in Perms(n) : \A j \in 1..(n - 1) : k[o[j] + 1] >= k[o[j + 1] + 1]}

StreamStep ==
  /\ stream # <<>>
  /\ stream' = Tail(stream)
  /\ LET op == Head(stream)
         n == op.n
     IN   LET fetch(p, j) == IF Valid(p, j) THEN dev[p].data[j] ELSE Garbage
              store(p, elem(_)) ==
                IF Valid(p, n) THEN [dev EXCEPT ![p].data = WriteFirst(@, n, elem)] ELSE dev
              x(j) == op.data[j]
              seq(j) == j - 1
              key(j) == fetch(op.p, j)
              lost(j) == Garbage
          IN CASE op.kind = "copy_in" ->
                    /\ dev' = store(op.p, x)
                    /\ UNCHANGED <<val, ind, gb_seen>>
               [] op.kind = "sequence" ->
                    /\ dev' = store(op.p, seq)
                    /\ UNCHANGED <<val, ind, gb_seen>>
               [] op.kind = "sort" ->
                    /\ IF Valid(op.p, n) /\ Valid(op.q, n)
                         THEN \E o \in SortOrders(dev[op.p].data, n) :
                                LET ks(j) == dev[op.p].data[o[j] + 1]
                                    vs(j) == dev[op.q].data[o[j] + 1]
                                IN dev' = [dev EXCEPT ![op.p].data = WriteFirst(@, n, ks),
                                                      ![op.q].data = WriteFirst(@, n, vs)]
                         ELSE dev' = dev
                    /\ UNCHANGED <<val, ind, gb_seen>>
               [] op.kind = "copy_val" ->
                    /\ val' = IF op.cur THEN WriteFirst(val, n, key) ELSE val
                    /\ UNCHANGED <<dev, ind, gb_seen>>
               [] op.kind = "copy_ind" ->
                    /\ ind' = IF op.cur THEN WriteFirst(ind, n, key) ELSE ind
                    /\ UNCHANGED <<dev, val, gb_seen>>
               [] op.kind = "h2d" ->
                    /\ \/ dev' = IF Valid(op.p, n * PtrSize)
                                   THEN [dev EXCEPT ![op.p].data = WriteFirst(@, n, x)] ELSE dev
                       \/ /\ op.freed
                          /\ dev' = store(op.p, lost)
                    /\ UNCHANGED <<val, ind, gb_seen>>
               [] op.kind = "gemm_batched" ->
                    /\ gb_seen' = IF op.cur
                                     THEN [a |-> [j \in 1..n |-> fetch(op.p, j)],
                                           b |-> [j \in 1..n |-> fetch(op.q, j)],
                                           c |-> [j \in 1..n |-> fetch(op.data[1], j)]]
                                     ELSE gb_seen
                    /\ UNCHANGED <<dev, val, ind>>
  /\ UNCHANGED <<pc, call, topk_statics, gb_statics, host_arrays, failed, reqMax, tvars, gvars>>

RInit ==
  /\ pc = "idle"
  /\ call = NoCall
  /\ keys = NULL /\ values = NULL /\ alloc_size = 0
  /\ a_array_device = NULL /\ b_array_device = NULL /\ c_array_device = NULL
  /\ gb_alloc_size = 0
  /\ host_arrays = NoArrays
  /\ dev = [p \in Ptrs |-> Freed]
  /\ stream = <<>>
  /\ val = Fresh /\ ind = Fresh
  /\ gb_seen = NotRun
  /\ failed = FALSE
  /\ reqMax = [topk |-> 0, gemm_batch |-> 0]

\* ---------------------------------------------------------- specifications
InitTranspose == TInit /\ GIdle /\ RInit
NextTranspose == Transpose3d \/ Transpose3dBack \/ Transpose4d
SpecTranspose == InitTranspose /\ [][NextTranspose]_vars

InitGemm == GInit /\ TIdle /\ RInit
NextGemm == Gemm
SpecGemm == InitGemm /\ [][NextGemm]_vars

Init == RInit /\ TIdle /\ GIdle

\* One thread issuing calls of topk, or calls of gemm_batch, one after the
\* other, while the stream works through what they enqueue. The two
\* primitives keep separate statics; a run follows one of them (the guards
\* of TopkBegin and GemmBatchBegin).
Next ==
  \/ TopkBegin \/ TopkFreeKeys \/ TopkMallocKeys \/ TopkFreeValues \/ TopkMallocValues
  \/ TopkCopyIn \/ TopkSequence \/ TopkSort \/ TopkCopyVal \/ TopkCopyInd
  \/ GemmBatchBegin \/ GemmBatchFreeA \/ GemmBatchFreeB \/ GemmBatchFreeC
  \/ GemmBatchMallocA \/ GemmBatchMallocB \/ GemmBatchMallocC
  \/ GemmBatchCopyA \/ GemmBatchCopyB \/ GemmBatchCopyC
  \/ GemmBatchDelete \/ GemmBatchSgemm
  \/ StreamStep
Spec == Init /\ [][Next]_vars

\* ------------------------------------------------------------------ claims
\* Row-major linear index of coordinate vector co in a tensor of shape dims.
RECURSIVE RowMajor(_, _)
RowMajor(co, dims) ==
  IF co = <<>> THEN 0
  ELSE Head(co) * Product(Tail(dims)) + RowMajor(Tail(co), Tail(dims))

Coords(dims) ==
  {co \in [DOMAIN dims -> 0..(Product(dims) - 1)] : \A j \in DOMAIN dims : co[j] < dims[j]}

\* The source coordinate of output coordinate co: axis perm[j] takes co[j].
SourceCoord(co, perm) ==
  [ax \in DOMAIN perm |-> co[CHOOSE j \in DOMAIN perm : perm[j] = ax - 1]]

\* C1: after transpose_4d, for every linear output index i the source index
\* computed by perm_indices_4d is i0*s[perm[0]] + i1*s[perm[1]] + i2*s[perm[2]]
\* + i3*s[perm[3]] (the fourth term added), so b[i] is the element of a at the
\* permuted coordinates.
C1_SourceIndexIsSum ==
  t_pc = "done4" =>
    LET bdims == PermutedDims(t_dims, t_perm)
        f == perm_indices_4d(t_dims, t_perm)
    IN \A co \in Coords(bdims) :
         LET i == RowMajor(co, bdims)
             src == RowMajor(SourceCoord(co, t_perm), t_dims)
         IN /\ perm_index_4d(f, i) = src
            /\ t_b[i + 1] = t_a[src + 1]

\* C2: after transpose_3d, b is a with its axes reordered by perm: b at output
\* coordinate (i0,i1,i2) equals a at the coordinate whose axis perm[j] is i_j;
\* and transposing b again with the inverse permutation returns a exactly.
C2_Transpose3dReorders ==
  /\ t_pc \in {"done3", "back3"} =>
       LET bdims == PermutedDims(t_dims, t_perm)
       IN /\ Len(t_b) = Len(t_a)
          /\ \A co \in Coords(bdims) :
               t_b[RowMajor(co, bdims) + 1]
                 = t_a[RowMajor(SourceCoord(co, t_perm), t_dims) + 1]
  /\ t_pc = "back3" => t_back = t_a

C2_Witness ==
  /\ t_pc = "back3"
  /\ t_perm = <<2, 0, 1>>
  /\ t_dims = <<1, 2, 2>>
  /\ t_b # t_a

\* C6: gemm leaves in c, read as a row-major m x n matrix, exactly
\* alpha * op(a) * op(b) + beta * c_old, with a and b read row-major and op
\* the identity or the transpose per flag.
RowMajorOp(x, transpose, rows, cols, r, c) ==
  IF transpose THEN x[c * rows + r + 1] ELSE x[r * cols + c + 1]

C6_GemmRowMajor ==
  g_pc = "done" =>
    LET g == g_args
        term(i, j, l) == RowMajorOp(g.a, g.transpose_a, g.m, g.k, i, l)
                           * RowMajorOp(g.b, g.transpose_b, g.k, g.n, l, j)
        dot(i, j) == LET t(l) == term(i, j, l) IN DotSum(t, 0, g.k)
    IN /\ Len(g_c) = g.m * g.n
       /\ \A i \in 0..(g.m - 1), j \in 0..(g.n - 1) :
            g_c[i * g.n + j + 1] = g.alpha * dot(i, j) + g.beta * g.c[i * g.n + j + 1]

C6_Witness ==
  /\ g_pc = "done"
  /\ g_args.transpose_a /\ ~g_args.transpose_b
  /\ g_args.m = 1 /\ g_args.n = 2 /\ g_args.k = 2
  /\ g_args.alpha = 2 /\ g_args.beta = 1
  /\ \E p \in DOMAIN g_c : g_c[p] = 6

\* ---- claims about topk, gemm_batch and the scratch cache (Spec)
Untouched(buf) == \A j \in DOMAIN buf : buf[j] = Unwritten
\* The call has returned and the stream has run everything it enqueued.
Completed == pc = "idle" /\ call.status = "ok" /\ \A j \in DOMAIN stream : ~stream[j].cur

\* C3: after topk with k <= size (no call having failed), val[0..k-1] holds
\* the k largest elements of x in descending order, ind[j] is the position
\* of val[j] in x with all ind[j] distinct, and among equal values the
\* smaller index comes first.
C3_TopkDescendingStable ==
  (call.op = "topk" /\ call.k <= call.size /\ Completed /\ ~failed) =>
    LET x == call.x
        top == 1..call.k
    IN /\ \A j \in top : ind[j] \in 0..(call.size - 1) /\ x[ind[j] + 1] = val[j]
       /\ \A i, j \in top :
            i < j => /\ ind[i] # ind[j]
                     /\ val[i] >= val[j]
                     /\ val[i] = val[j] => ind[i] < ind[j]
       /\ \A p \in 0..(call.size - 1) :
            p \notin {ind[j] : j \in top} =>
              \A j \in top : x[p + 1] < val[j] \/ (x[p + 1] = val[j] /\ ind[j] < p)

\* C4: topk called with k > size fails with InvalidArgument before any device
\* work: no scratch free or allocation, nothing enqueued on the stream, no
\* write to val or ind, and the call does not return normally.
C4_InvalidKNoDeviceWork ==
  (call.op = "topk" /\ call.k > call.size) =>
    /\ call.frees = 0 /\ call.mallocs = 0 /\ call.enq = 0
    /\ Untouched(val) /\ Untouched(ind)
    /\ call.status # "ok"

\* C5: while every call so far has succeeded, the cached capacity equals the
\* largest size requested so far; a call asking for no more than the capacity
\* frees nothing, allocates nothing and keeps the scratch pointers; a call
\* asking for more frees each old buffer and allocates each anew with exactly
\* the requested size; and the capacity never decreases.
ScratchOf(op) ==
  IF op = "topk" THEN {keys, values}
  ELSE {a_array_device, b_array_device, c_array_device}
CapacityOf(op) == IF op = "topk" THEN alloc_size ELSE gb_alloc_size
LiveSet == {p \in Ptrs : dev[p].live}

C5_State ==
  ~failed =>
    /\ pc = "idle" => (alloc_size = reqMax.topk /\ gb_alloc_size = reqMax.gemm_batch)
    /\ (call.op # "none" /\ call.status = "ok") =>
         LET scratch == ScratchOf(call.op)
             pointers == IF call.op = "topk" THEN 2 ELSE 3
         IN IF call.size <= call.cap0
              THEN /\ call.frees = 0 /\ call.mallocs = 0
                   /\ CapacityOf(call.op) = call.cap0
              ELSE /\ call.frees = pointers /\ call.mallocs = pointers
                   /\ CapacityOf(call.op) = call.size
                   /\ Cardinality(scratch) = pointers
                   /\ \A p \in scratch : p # NULL /\ dev[p].live /\ dev[p].cap = call.size

C5_Step ==
  /\ alloc_size' >= alloc_size
  /\ gb_alloc_size' >= gb_alloc_size
  /\ (pc # "idle" /\ call.size <= call.cap0) =>
       /\ UNCHANGED <<topk_statics, gb_statics>>
       /\ {p \in Ptrs : dev'[p].live} = LiveSet

C5_ScratchGrowthOnly == []C5_State /\ [][C5_Step]_vars

C5_Witness ==
  /\ ~failed /\ pc = "idle" /\ stream = <<>>
  /\ call.op = "topk" /\ call.status = "ok"
  /\ call.size = 1 /\ call.cap0 = 2 /\ alloc_size = 2
  /\ dev[keys].cap = 2 /\ dev[values].cap = 2

\* C7: in every topk call (with k <= size) in which some step fails, neither
\* val nor ind has been written by that call.
C7_FailureWritesNothing ==
  (call.op = "topk" /\ call.k <= call.size /\ call.status = "error") =>
    (Untouched(val) /\ Untouched(ind))

\* C8 as stated: topk with k = 0 writes no element of val or ind, performs no
\* scratch free or allocation, enqueues nothing on the stream and leaves the
\* cached capacity unchanged.
C8_ZeroKTouchesNothing ==
  (call.op = "topk" /\ call.k = 0) =>
    /\ Untouched(val) /\ Untouched(ind)
    /\ call.frees = 0 /\ call.mallocs = 0 /\ call.enq = 0
    /\ alloc_size = call.cap0

\* C8 as amended: topk with k = 0 writes no element of val or ind; a call that
\* returns has still enqueued the copy-in, sequence, sort and both copy-outs
\* (five operations), and has grown the scratch to size when size exceeded
\* the capacity (two frees, two allocations), leaving it alone otherwise.
C8_ZeroKWritesNoOutput ==
  (call.op = "topk" /\ call.k = 0) =>
    /\ Untouched(val) /\ Untouched(ind)
    /\ call.status = "ok" =>
         /\ call.enq = 5
         /\ IF call.size > call.cap0
              THEN call.frees = 2 /\ call.mallocs = 2 /\ alloc_size = call.size
              ELSE call.frees = 0 /\ call.mallocs = 0 /\ alloc_size = call.cap0

C8_Witness ==
  /\ call.op = "topk" /\ call.k = 0 /\ call.size = 2 /\ call.cap0 = 0
  /\ Completed /\ stream = <<>>
  /\ alloc_size = 2 /\ call.enq = 5
  /\ dev[keys].data = <<2, 1>>

\* C9: gemm_batch never frees a host pointer table while the transfer that
\* reads it (a copy of at least one pointer) is still pending on the stream.
C9_NoDeleteBeforeCopyDone ==
  \A j \in DOMAIN stream :
    (stream[j].kind = "h2d" /\ stream[j].n > 0) => ~stream[j].freed

\* C10: every copy, sequence and sort that topk enqueues works on live
\* allocations of at least size elements; cudaFree is never handed a buffer
\* that is already freed; and between calls the recorded capacity does not
\* exceed the real capacity of either cached buffer.
C10_ScratchStaysValid ==
  /\ \A j \in DOMAIN stream :
       LET op == stream[j]
       IN /\ op.kind \in {"copy_in", "sequence", "sort"} => InBounds(op.p, op.n)
          /\ op.kind = "sort" => InBounds(op.q, op.n)
  /\ pc = "topk_free_keys" => (keys = NULL \/ dev[keys].live)
  /\ pc = "topk_free_values" => (values = NULL \/ dev[values].live)
  /\ (pc = "idle" /\ alloc_size > 0) =>
       (Valid(keys, alloc_size) /\ Valid(values, alloc_size))
====
